---- MODULE Spec2Model ----
(***************************************************************************)
(* Camera-path planning core of Cinema-Navigation: voxelisation, A* over   *)
(* the 6-connected integer lattice, look-at orientation, and the path      *)
(* generators (safe route, 360 orbit, grid waypoints).                     *)
(*                                                                         *)
(* Real numbers are modelled exactly: world coordinates and cell sizes are *)
(* integers, fractions are pairs <<numerator, denominator>>.  Floating     *)
(* point rounding is not modelled.                                         *)
(***************************************************************************)
EXTENDS Integers, Sequences, FiniteSets, TLC

VARIABLES
    pc,            \* position in the running call
    frames,        \* the frames list of the running generator
    voxel_size,    \* argument of generate_safe_path and of voxelize
    \* ---- generate_safe_path / astar (path_planner.py) ----
    start_pos, end_pos, occupied,
    ties,          \* how heappop orders entries of equal f: "heapq" or "any"
    start_vox, end_vox,
    open_set,      \* the heap: a set of <<f, node>> entries
    came, g,       \* astar's dictionaries
    vox_path,      \* astar's return value (None or a sequence of voxels)
    expanded,      \* history: node -> g[node] when it was first expanded
    reexpanded,    \* history: entries <<node, first cost, cost now>> expanded again
    \* ---- look_at_three (path_planner.py) ----
    camera_pos, target, up, M,
    \* ---- voxelize (explorer.py) ----
    points,        \* zip(xs, ys, zs): the point cloud, also the orbit's scene
    vox,
    \* ---- generate_center_360_path (center_360_path.py) ----
    args,          \* the call's arguments as passed
    center, size, radius,
    loops, slow_factor, frames_per_loop, total_frames,
    saved,         \* save_path has been called
    \* ---- generate_grid_waypoints (waypoints.py) ----
    height, nx, nz, waypoints

safeVars == <<start_pos, end_pos, occupied, ties, start_vox, end_vox, open_set, came, g,
              vox_path, expanded, reexpanded>>
orientVars == <<camera_pos, target, up, M>>
voxelVars == <<points, vox>>
orbitVars == <<args, center, size, radius, loops, slow_factor, frames_per_loop,
               total_frames, saved>>
gridVars == <<height, nx, nz, waypoints>>

vars == <<pc, frames, voxel_size, safeVars, orientVars, voxelVars, orbitVars, gridVars>>

\* ------------------------------------------------------------------ bounds
ArenaX == 3          \* columns of the walled arena
MaxVoxelSize == 2
MaxNodes == 40       \* cells astar may record before the model stops following it
MaxCoord == 1        \* look_at_three and voxelize: coordinates lie in -MaxCoord..MaxCoord
MaxPoints == 2       \* points of a cloud
MaxFramesPerLoop == 2
MaxLoops == 2
MaxSize == 6         \* grid waypoints: scene extents lie in 0..MaxSize
MaxCount == 3        \* grid waypoints: nx, nz lie in 1..MaxCount

\* ------------------------------------------------------------------ values
None == <<>>

Abs(n) == IF n < 0 THEN -n ELSE n

Add3(a, b) == <<a[1] + b[1], a[2] + b[2], a[3] + b[3]>>
Sub3(a, b) == <<a[1] - b[1], a[2] - b[2], a[3] - b[3]>>
Scale3(a, k) == <<a[1] * k, a[2] * k, a[3] * k>>
Cross(a, b) == <<a[2] * b[3] - a[3] * b[2],
                 a[3] * b[1] - a[1] * b[3],
                 a[1] * b[2] - a[2] * b[1]>>
Zero3 == <<0, 0, 0>>

\* Python's int(x / s): true division, then truncation toward zero.
IntDiv(x, s) ==
    IF (x >= 0 /\ s > 0) \/ (x <= 0 /\ s < 0)
    THEN Abs(x) \div Abs(s)
    ELSE -(Abs(x) \div Abs(s))

ToVoxel(p, s) == <<IntDiv(p[1], s), IntDiv(p[2], s), IntDiv(p[3], s)>>

\* ------------------------------------------------------------------ look_at_three
\* A row of the matrix is kept as its un-normalised direction, or is NaN: a vector
\* divided by its zero norm is nan in numpy (a RuntimeWarning, no exception), and
\* NaN propagates through the cross products.
Vec(v) == [nan |-> FALSE, dir |-> v]
NaN == [nan |-> TRUE, dir |-> Zero3]

Normalize(r) == IF r.nan \/ r.dir = Zero3 THEN NaN ELSE r
CrossN(a, b) == IF a.nan \/ b.nan THEN NaN ELSE Vec(Cross(a.dir, b.dir))

UpDefault == <<0, 1, 0>>

look_at_three(cam, tgt, upv) ==
    LET z_axis == Normalize(Vec(Sub3(cam, tgt)))
        x_axis == Normalize(CrossN(Vec(upv), z_axis))
        y_axis == CrossN(z_axis, x_axis)
    IN  [x_axis |-> x_axis, y_axis |-> y_axis, z_axis |-> z_axis,
         translation |-> cam]

\* ------------------------------------------------------------------ astar
moves == {<<1, 0, 0>>, <<-1, 0, 0>>, <<0, 1, 0>>, <<0, -1, 0>>, <<0, 0, 1>>, <<0, 0, -1>>}

h(a, b) == Abs(a[1] - b[1]) + Abs(a[2] - b[2]) + Abs(a[3] - b[3])

Neighbours(cur) == {Add3(cur, m) : m \in moves}

\* Python's tuple order on (f, (x, y, z)).
LexLess(a, b) ==
    \/ a[1] < b[1]
    \/ a[1] = b[1] /\ a[2][1] < b[2][1]
    \/ a[1] = b[1] /\ a[2][1] = b[2][1] /\ a[2][2] < b[2][2]
    \/ a[1] = b[1] /\ a[2][1] = b[2][1] /\ a[2][2] = b[2][2] /\ a[2][3] < b[2][3]

\* Mutant: the heap is popped at its greatest f instead of its least.
Poppable_greatest ==
    {e \in open_set : \A o \in open_set : e[1] >= o[1]}

\* The entries heappop may return: heapq returns the least tuple; "any" stands
\* for a heap that orders by f alone.
Poppable ==
    IF ties = "heapq"
    THEN {e \in open_set : \A o \in open_set : o = e \/ LexLess(e, o)}
    ELSE {e \in open_set : \A o \in open_set : e[1] <= o[1]}

\* Mutant: the inner loop records neighbours without looking at the occupancy set.
Improved_through_walls(cur) ==
    {nxt \in Neighbours(cur) : nxt \notin DOMAIN g \/ g[cur] + 1 < g[nxt]}

\* Mutant: the inner loop records every free neighbour, whatever cost it has.
Improved_unconditional(cur) ==
    {nxt \in Neighbours(cur) : nxt \notin occupied}

\* The neighbours of cur the inner loop records and pushes.
Improved(cur) ==
    {nxt \in Neighbours(cur) :
        /\ nxt \notin occupied
        /\ (nxt \notin DOMAIN g \/ g[cur] + 1 < g[nxt])}

RECURSIVE Reconstruct(_, _)
Reconstruct(cur, fuel) ==
    IF cur = None \/ fuel = 0 THEN <<>>
    ELSE Append(Reconstruct(came[cur], fuel - 1), cur)

\* ------------------------------------------------------------------ scenes
\* A one-layer arena of ArenaX columns and three rows; Shell walls it in on every
\* side, so a search started inside never leaves it.  Obstacles puts at most one
\* occupied cell inside.  Faces(c) walls in the single cell c.
Arena == {<<x, y, 0>> : x \in 0..(ArenaX - 1), y \in 0..2}
Hull == {<<x, y, z>> : x \in -1..ArenaX, y \in -1..3, z \in -1..1}
Shell == Hull \ Arena
Faces(c) == Neighbours(c)

Obstacles == {{}} \cup {{c} : c \in Arena}

\* ------------------------------------------------------------------ unused state
\* Each specification runs one entry point; the variables of the others rest.
SafeIdle ==
    /\ start_pos = None /\ end_pos = None /\ occupied = {} /\ ties = "heapq"
    /\ start_vox = None /\ end_vox = None /\ open_set = {} /\ came = <<>> /\ g = <<>>
    /\ vox_path = None /\ expanded = <<>> /\ reexpanded = {}

OrientIdle == camera_pos = None /\ target = None /\ up = None /\ M = None

VoxelIdle == points = <<>> /\ vox = {}

OrbitIdle ==
    /\ args = None /\ center = None /\ size = None /\ radius = None
    /\ loops = 0 /\ slow_factor = None /\ frames_per_loop = 0 /\ total_frames = 0
    /\ saved = FALSE

GridIdle == height = 0 /\ nx = 0 /\ nz = 0 /\ waypoints = <<>>

\* ------------------------------------------------------------------ generate_safe_path
Init ==
    /\ start_pos \in Arena
    /\ end_pos \in Arena
    /\ voxel_size \in 1..MaxVoxelSize
    /\ \/ /\ occupied \in {Shell \cup S : S \in Obstacles} \cup {{}}
          /\ ties \in {"heapq", "any"}
       \/ /\ occupied = Faces(ToVoxel(end_pos, voxel_size))
          /\ ties = "heapq"
    /\ pc = "entry"
    /\ start_vox = None
    /\ end_vox = None
    /\ open_set = {}
    /\ came = <<>>
    /\ g = <<>>
    /\ vox_path = None
    /\ frames = <<>>
    /\ expanded = <<>>
    /\ reexpanded = {}
    /\ OrientIdle /\ VoxelIdle /\ OrbitIdle /\ GridIdle

\* generate_safe_path lines 93-104 and astar lines 37-39.
Enter ==
    /\ pc = "entry"
    /\ start_vox' = ToVoxel(start_pos, voxel_size)
    /\ end_vox' = ToVoxel(end_pos, voxel_size)
    /\ open_set' = {<<0, start_vox'>>}
    /\ came' = (start_vox' :> None)
    /\ g' = (start_vox' :> 0)
    /\ pc' = "search"
    /\ UNCHANGED <<start_pos, end_pos, voxel_size, occupied, ties, vox_path, frames,
                   expanded, reexpanded>>
    /\ UNCHANGED <<orientVars, voxelVars, orbitVars, gridVars>>

\* One iteration of the while loop with cur # goal.
Expand ==
    /\ pc = "search"
    /\ \E e \in Poppable :
        LET cur == e[2]
            imp == Improved(cur)
            cost == g[cur] + 1
        IN  /\ cur # end_vox
            /\ Cardinality(DOMAIN g \cup imp) <= MaxNodes
            /\ g' = [n \in DOMAIN g \cup imp |-> IF n \in imp THEN cost ELSE g[n]]
            /\ came' = [n \in DOMAIN came \cup imp |-> IF n \in imp THEN cur ELSE came[n]]
            /\ open_set' = (open_set \ {e}) \cup {<<cost + h(n, end_vox), n>> : n \in imp}
            /\ IF cur \in DOMAIN expanded
               THEN /\ reexpanded' = reexpanded \cup {<<cur, expanded[cur], g[cur]>>}
                    /\ UNCHANGED expanded
               ELSE /\ expanded' = (cur :> g[cur]) @@ expanded
                    /\ UNCHANGED reexpanded
    /\ UNCHANGED <<start_pos, end_pos, voxel_size, occupied, ties, pc, start_vox,
                   end_vox, vox_path, frames>>
    /\ UNCHANGED <<orientVars, voxelVars, orbitVars, gridVars>>

\* The iteration that pops the goal: astar lines 47-52.
ReturnPath ==
    /\ pc = "search"
    /\ \E e \in Poppable :
        /\ e[2] = end_vox
        /\ open_set' = open_set \ {e}
        /\ vox_path' = Reconstruct(e[2], Cardinality(DOMAIN came) + 1)
    /\ pc' = "found"
    /\ UNCHANGED <<start_pos, end_pos, voxel_size, occupied, ties, start_vox, end_vox,
                   came, g, frames, expanded, reexpanded>>
    /\ UNCHANGED <<orientVars, voxelVars, orbitVars, gridVars>>

\* The heap is empty: astar returns None (line 67) and generate_safe_path raises
\* RuntimeError (lines 106-107).
RaisePathNotFound ==
    /\ pc = "search"
    /\ open_set = {}
    /\ pc' = "raised"
    /\ UNCHANGED <<start_pos, end_pos, voxel_size, occupied, ties, start_vox, end_vox,
                   open_set, came, g, vox_path, frames, expanded, reexpanded>>
    /\ UNCHANGED <<orientVars, voxelVars, orbitVars, gridVars>>

\* Mutant: the voxel index is used as the world position, unscaled.
SafeFrame_unscaled(v) ==
    look_at_three(v, <<0, v[2], 0>>, UpDefault)

SafeFrame(v) ==
    LET cam == Scale3(v, voxel_size)
        tgt == <<0, cam[2], 0>>
    IN  look_at_three(cam, tgt, UpDefault)

\* generate_safe_path lines 109-126.
BuildFrames ==
    /\ pc = "found"
    /\ frames' = [i \in 1..Len(vox_path) |-> SafeFrame(vox_path[i])]
    /\ pc' = "done"
    /\ UNCHANGED <<start_pos, end_pos, voxel_size, occupied, ties, start_vox, end_vox,
                   open_set, came, g, vox_path, expanded, reexpanded>>
    /\ UNCHANGED <<orientVars, voxelVars, orbitVars, gridVars>>

Next == Enter \/ Expand \/ ReturnPath \/ RaisePathNotFound \/ BuildFrames

Spec == Init /\ [][Next]_vars

\* ------------------------------------------------------------------ look_at_three alone
Cube == {<<x, y, z>> : x \in -MaxCoord..MaxCoord, y \in -MaxCoord..MaxCoord,
                       z \in -MaxCoord..MaxCoord}

InitOrient ==
    /\ camera_pos \in Cube
    /\ target \in Cube
    /\ up \in {UpDefault, <<1, 0, 0>>, <<0, 0, 1>>}
    /\ M = None
    /\ pc = "entry"
    /\ frames = <<>>
    /\ voxel_size = 1
    /\ SafeIdle /\ VoxelIdle /\ OrbitIdle /\ GridIdle

\* look_at_three never raises: it returns M, whatever the rows hold.
LookAt ==
    /\ pc = "entry"
    /\ M' = look_at_three(camera_pos, target, up)
    /\ pc' = "returned"
    /\ UNCHANGED <<frames, voxel_size, camera_pos, target, up, safeVars, voxelVars,
                   orbitVars, gridVars>>

NextOrient == LookAt

SpecOrient == InitOrient /\ [][NextOrient]_vars

\* ------------------------------------------------------------------ voxelize
Plane == {<<x, y, 0>> : x \in -MaxCoord..MaxCoord, y \in -MaxCoord..MaxCoord}
Clouds == UNION {[1..n -> Plane] : n \in 0..MaxPoints}

InitVoxel ==
    /\ points \in Clouds
    /\ voxel_size \in -1..MaxVoxelSize
    /\ vox = {}
    /\ pc = "entry"
    /\ frames = <<>>
    /\ SafeIdle /\ OrientIdle /\ OrbitIdle /\ GridIdle

\* explorer.voxelize.  x / 0 is a ZeroDivisionError for Python floats and inf or
\* nan for numpy scalars, which int() refuses: with voxel_size = 0 the first
\* point raises.  No other voxel_size is refused, and an empty cloud is never.
Voxelize ==
    /\ pc = "entry"
    /\ IF voxel_size = 0 /\ Len(points) > 0
       THEN pc' = "raised" /\ UNCHANGED vox
       ELSE /\ vox' = {ToVoxel(points[i], voxel_size) : i \in 1..Len(points)}
            /\ pc' = "returned"
    /\ UNCHANGED <<frames, voxel_size, points, safeVars, orientVars, orbitVars, gridVars>>

NextVoxel == Voxelize

SpecVoxel == InitVoxel /\ [][NextVoxel]_vars

\* ------------------------------------------------------------------ fractions
\* <<n, d>> with d > 0 stands for n / d.
LeQ(a, b) == a[1] * b[2] <= b[1] * a[2]
LtQ(a, b) == a[1] * b[2] < b[1] * a[2]
EqQ(a, b) == a[1] * b[2] = b[1] * a[2]

Max(a, b) == IF a >= b THEN a ELSE b

\* ------------------------------------------------------------------ compute_bounds
Coords(cloud, k) == {cloud[i][k] : i \in 1..Len(cloud)}
SetMax(S) == CHOOSE m \in S : \A x \in S : x <= m
SetMin(S) == CHOOSE m \in S : \A x \in S : m <= x

BoundsMin(cloud) == [k \in 1..3 |-> SetMin(Coords(cloud, k))]
BoundsMax(cloud) == [k \in 1..3 |-> SetMax(Coords(cloud, k))]

\* ------------------------------------------------------------------ generate_center_360_path
\* The clouds the loader hands over: none, one point, a vertical pair (no X/Z
\* extent), and pairs with extent along X, along Z, along both.
Scenes ==
    {<<>>,
     <<<<0, 0, 0>>>>,
     <<<<0, 0, 0>>, <<0, 1, 0>>>>,
     <<<<0, 0, 0>>, <<1, 0, 0>>>>,
     <<<<0, 1, 0>>, <<0, 0, 2>>>>,
     <<<<1, 0, 1>>, <<0, 0, 0>>>>}

SlowFactors == {<<-1, 1>>, <<1, 20>>, <<1, 2>>, <<1, 1>>, <<3, 2>>}
RadiusFactors == {<<1, 20>>, <<0, 1>>}

InitOrbit ==
    /\ points \in Scenes
    /\ args \in [frames_per_loop : -1..MaxFramesPerLoop, loops : -1..MaxLoops,
                  slow_factor : SlowFactors, radius_factor : RadiusFactors]
    /\ center = None /\ size = None /\ radius = None
    /\ loops = 0 /\ slow_factor = None /\ frames_per_loop = 0 /\ total_frames = 0
    /\ saved = FALSE
    /\ vox = {}
    /\ pc = "entry"
    /\ frames = <<>>
    /\ voxel_size = 1
    /\ SafeIdle /\ OrientIdle /\ GridIdle

\* Lines 65-68 with compute_bounds: center is kept doubled (min + max), so that
\* it stays an integer.
OrbitBounds ==
    /\ pc = "entry"
    /\ IF Len(points) = 0
       THEN pc' = "raised" /\ UNCHANGED <<center, size>>
       ELSE /\ center' = [k \in 1..3 |-> BoundsMin(points)[k] + BoundsMax(points)[k]]
            /\ size' = [k \in 1..3 |-> BoundsMax(points)[k] - BoundsMin(points)[k]]
            /\ pc' = "bounds"
    /\ UNCHANGED <<frames, voxel_size, points, vox, args, radius, loops, slow_factor,
                   frames_per_loop, total_frames, saved, safeVars, orientVars, gridVars>>

\* Mutant: only a negative extent is refused.
ZeroExtent_strict(sz) == Max(sz[1], sz[3]) < 0

ZeroExtent(sz) == Max(sz[1], sz[3]) <= 0

\* The radius, squared: base_radius * radius_factor, or scene_diag * 1e-3 when that
\* is the larger.
Radius2(sz, rf) ==
    LET base == Max(sz[1], sz[3])
        diag2 == sz[1] * sz[1] + sz[2] * sz[2] + sz[3] * sz[3]
        plain == <<base * base * rf[1] * rf[1], rf[2] * rf[2]>>
        floor == <<diag2, 1000000>>
    IN  IF base * rf[1] < 0 \/ LtQ(plain, floor) THEN floor ELSE plain

\* Lines 70-82.
OrbitRadius ==
    /\ pc = "bounds"
    /\ IF ZeroExtent(size)
       THEN pc' = "raised" /\ UNCHANGED radius
       ELSE radius' = Radius2(size, args.radius_factor) /\ pc' = "radius"
    /\ UNCHANGED <<frames, voxel_size, points, vox, args, center, size, loops, slow_factor,
                   frames_per_loop, total_frames, saved, safeVars, orientVars, gridVars>>

ClampSlow(sf) == IF LtQ(sf, <<1, 10>>) THEN <<1, 10>> ELSE sf

\* Mutant: the slow factor is left out of the frame count.
TotalFrames_unslowed(fpl, lp, sf) == fpl * lp

TotalFrames(fpl, lp, sf) == IntDiv(fpl * lp * sf[1], sf[2])

\* Lines 84-93.
OrbitCount ==
    /\ pc = "radius"
    /\ loops' = Max(1, args.loops)
    /\ slow_factor' = ClampSlow(args.slow_factor)
    /\ frames_per_loop' = Max(1, args.frames_per_loop)
    /\ total_frames' = TotalFrames(frames_per_loop', loops', slow_factor')
    /\ pc' = IF total_frames' <= 0 THEN "raised" ELSE "loop"
    /\ UNCHANGED <<frames, voxel_size, points, vox, args, center, size, radius, saved,
                   safeVars, orientVars, gridVars>>

\* The frame of iteration i: its angle as a fraction of a full turn (2 pi), the
\* orbit radius, and whether look_at_three divided by a zero norm (the offset
\* radius * (cos, 0, sin) is the zero vector exactly when the radius is 0).
OrbitFrameAt(i) ==
    [angle |-> <<loops * i, total_frames>>,
     radius |-> radius,
     nan |-> radius[1] = 0]

\* One iteration of the loop of lines 98-123.
OrbitFrame ==
    /\ pc = "loop"
    /\ Len(frames) < total_frames
    /\ frames' = Append(frames, OrbitFrameAt(Len(frames)))
    /\ UNCHANGED <<pc, voxel_size, points, vox, args, center, size, radius, loops,
                   slow_factor, frames_per_loop, total_frames, saved, safeVars,
                   orientVars, gridVars>>

\* Lines 125-130: the loop is over, save_path is called.
OrbitSave ==
    /\ pc = "loop"
    /\ Len(frames) >= total_frames
    /\ saved' = TRUE
    /\ pc' = "saved"
    /\ UNCHANGED <<frames, voxel_size, points, vox, args, center, size, radius, loops,
                   slow_factor, frames_per_loop, total_frames, safeVars, orientVars,
                   gridVars>>

NextOrbit == OrbitBounds \/ OrbitRadius \/ OrbitCount \/ OrbitFrame \/ OrbitSave

SpecOrbit == InitOrbit /\ [][NextOrbit]_vars

\* ------------------------------------------------------------------ generate_grid_waypoints
Margin == 2

\* np.linspace(lo, hi, n) for lo = lo2 / 2 and hi = hi2 / 2, as fractions.
Linspace(lo2, hi2, n) ==
    IF n = 1 THEN <<(<<lo2, 2>>)>>
    ELSE [k \in 1..n |-> <<lo2 * (n - 1) + (k - 1) * (hi2 - lo2), 2 * (n - 1)>>]

\* min + 2 and max - 2 along axis k, doubled: min = center - size / 2.
\* Mutant: the margin is taken outward from the lower bound.
GridLo_outward(c, sz, k) == 2 * c[k] - sz[k] - 2 * Margin

GridLo(c, sz, k) == 2 * c[k] - sz[k] + 2 * Margin
GridHi(c, sz, k) == 2 * c[k] + sz[k] - 2 * Margin

InitGrid ==
    /\ center \in {<<0, 0, 0>>, <<1, 0, -1>>}
    /\ size \in {<<sx, 1, sz>> : sx \in 0..MaxSize, sz \in 0..MaxSize}
    /\ height \in {0, 1}
    /\ nx \in 1..MaxCount
    /\ nz \in 1..MaxCount
    /\ waypoints = <<>>
    /\ args = None /\ radius = None
    /\ loops = 0 /\ slow_factor = None /\ frames_per_loop = 0 /\ total_frames = 0
    /\ saved = FALSE
    /\ pc = "entry"
    /\ frames = <<>>
    /\ voxel_size = 1
    /\ SafeIdle /\ OrientIdle /\ VoxelIdle

GridWaypoints ==
    /\ pc = "entry"
    /\ LET xs == Linspace(GridLo(center, size, 1), GridHi(center, size, 1), nx)
           zs == Linspace(GridLo(center, size, 3), GridHi(center, size, 3), nz)
       IN  waypoints' = [j \in 1..(nx * nz) |->
                            <<xs[((j - 1) \div nz) + 1], height, zs[((j - 1) % nz) + 1]>>]
    /\ pc' = "returned"
    /\ UNCHANGED <<frames, voxel_size, center, size, height, nx, nz, args, radius, loops,
                   slow_factor, frames_per_loop, total_frames, saved, safeVars,
                   orientVars, voxelVars>>

NextGrid == GridWaypoints

SpecGrid == InitGrid /\ [][NextGrid]_vars

\* ------------------------------------------------------------------ reference search
\* Breadth-first search over the whole lattice, layer by layer: the length of a
\* shortest 6-connected path from the frontier to goal through cells outside
\* occupied, or -1 when there is none within `limit` steps.
RECURSIVE Bfs(_, _, _, _, _)
Bfs(frontier, seen, goal, d, limit) ==
    IF goal \in frontier THEN d
    ELSE IF frontier = {} \/ d >= limit THEN -1
    ELSE LET nxt == (UNION {Neighbours(c) : c \in frontier}) \ (occupied \cup seen)
         IN  Bfs(nxt, seen \cup nxt, goal, d + 1, limit)

ShortestLen(a, b, limit) == Bfs({a}, {a}, b, 0, limit)

Returned == pc \in {"found", "done"}

\* ------------------------------------------------------------------ claims
\* C1: whenever the goal is reachable astar returns a path, and the step count
\* of the returned path is the breadth-first shortest path length, whichever
\* equal-f entry the heap pops first.
C1_AstarOptimal ==
    /\ Returned => Len(vox_path) - 1 = ShortestLen(start_vox, end_vox, Len(vox_path) - 1)
    /\ pc = "raised" => ShortestLen(start_vox, end_vox, MaxNodes) = -1

C1_Witness ==
    /\ pc = "found"
    /\ ties = "any"
    /\ Len(vox_path) - 1 > h(start_vox, end_vox)
    /\ \E e \in open_set : e[1] <= Len(vox_path) - 1

GoalUnreachable ==
    /\ pc # "entry"
    /\ start_vox # end_vox
    /\ \/ end_vox \in occupied
       \/ Faces(end_vox) \subseteq occupied /\ start_vox \notin Faces(end_vox)

\* The search is still running with a non-empty heap after recording MaxNodes cells.
SearchBeyondBound ==
    /\ pc = "search"
    /\ open_set # {}
    /\ \A e \in Poppable :
          e[2] # end_vox /\ Cardinality(DOMAIN g \cup Improved(e[2])) > MaxNodes

\* C2: a search for an unreachable goal ends (astar returns None and
\* generate_safe_path raises, with no frames); it is never still running
\* with a non-empty heap once MaxNodes cells have been recorded.
C2_UnreachableGoalTerminates ==
    GoalUnreachable => /\ ~SearchBeyondBound
                       /\ ~Returned
                       /\ frames = <<>>

\* C7: on an empty occupancy set SafeRoute returns L1(a, b) + 1 frames whose
\* translations are multiples of the cell size, run from a * cellSize to
\* b * cellSize in single-axis steps of cellSize, and stay on the line from a
\* to b when a and b differ along one axis only.
Translation(i) == frames[i].translation

SingleStep(p, q) ==
    /\ h(p, q) = voxel_size
    /\ Cardinality({k \in 1..3 : p[k] # q[k]}) = 1

C7_FreeRouteFrames ==
    (pc = "done" /\ occupied = {}) =>
        /\ Len(frames) = h(start_vox, end_vox) + 1
        /\ Translation(1) = Scale3(start_vox, voxel_size)
        /\ Translation(Len(frames)) = Scale3(end_vox, voxel_size)
        /\ \A i \in 1..Len(frames) : \A k \in 1..3 : Translation(i)[k] % voxel_size = 0
        /\ \A i \in 1..(Len(frames) - 1) : SingleStep(Translation(i), Translation(i + 1))
        /\ \A k \in 1..3 :
              start_vox[k] = end_vox[k] =>
                  \A i \in 1..Len(frames) : Translation(i)[k] = start_vox[k] * voxel_size

C7_Witness ==
    /\ pc = "done"
    /\ occupied = {}
    /\ voxel_size = 2
    /\ start_vox = <<0, 0, 0>>
    /\ end_vox = <<1, 0, 0>>
    /\ Len(frames) = 2

\* C10: a cell that was popped and expanded is expanded again only with a cost
\* strictly lower than the cost it was first expanded with.
C10_NeverRevisit ==
    ties = "heapq" => \A r \in reexpanded : r[3] < r[2]

\* C3: look_at_three returns no transform when position = target or up is
\* parallel to position - target: no returned matrix holds a row that was
\* divided by a zero norm.
Degenerate ==
    \/ camera_pos = target
    \/ Cross(up, Sub3(camera_pos, target)) = Zero3

C3_DegenerateOrientationFails ==
    (pc = "returned" /\ M # None) =>
        /\ ~Degenerate
        /\ ~M.x_axis.nan /\ ~M.y_axis.nan /\ ~M.z_axis.nan

\* C4: for a positive cell size, every voxel index is floor(coordinate /
\* cellSize) on each axis, negative coordinates included.
Floor3(p, s) == <<p[1] \div s, p[2] \div s, p[3] \div s>>

C4_FloorQuantization ==
    (pc = "returned" /\ voxel_size > 0) =>
        vox = {Floor3(points[i], voxel_size) : i \in 1..Len(points)}

\* C5: a non-positive frame count or loop count passed to the orbit generator
\* is rejected: the call never goes on to build frames or to save a path.
C5_InvalidCountsRejected ==
    (args.frames_per_loop <= 0 \/ args.loops <= 0) => pc \notin {"loop", "saved"}

PositiveArgs ==
    /\ args.frames_per_loop >= 1
    /\ args.loops >= 1
    /\ args.slow_factor[1] > 0

NonZeroExtent ==
    \E i, j \in 1..Len(points) :
        points[i][1] # points[j][1] \/ points[i][3] # points[j][3]

\* floor(frameCountPerLoop * loopCount * slowFactor)
FlooredProduct ==
    (args.frames_per_loop * args.loops * args.slow_factor[1]) \div args.slow_factor[2]

\* floor(frameCountPerLoop * loopCount * max(0.1, slowFactor))
FlooredClampedProduct ==
    IF 10 * args.slow_factor[1] < args.slow_factor[2]
    THEN (args.frames_per_loop * args.loops) \div 10
    ELSE FlooredProduct

AnglesOf(T) ==
    \A i \in 1..Len(frames) : EqQ(frames[i].angle, <<args.loops * (i - 1), T>>)

WaypointCountAndHeight ==
    /\ Len(waypoints) = nx * nz
    /\ \A j \in 1..Len(waypoints) : waypoints[j][2] = height

InsetLo(k) == <<2 * center[k] - size[k] + 4, 2>>
InsetHi(k) == <<2 * center[k] + size[k] - 4, 2>>

C8_WithinInsetBounds ==
    pc = "returned" =>
        /\ WaypointCountAndHeight
        /\ \A j \in 1..Len(waypoints) : \A k \in {1, 3} :
              LeQ(InsetLo(k), waypoints[j][k]) /\ LeQ(waypoints[j][k], InsetHi(k))

\* C8 as amended: countX * countZ positions at the given height, every x and z
\* between the two inset ends; these are the inset bounds when the extent is
\* at least twice the margin, and are crossed (lower end above upper end)
\* when it is smaller.
BetweenQ(a, x, b) == (LeQ(a, x) /\ LeQ(x, b)) \/ (LeQ(b, x) /\ LeQ(x, a))

C8_BetweenInsetEnds ==
    pc = "returned" =>
        /\ WaypointCountAndHeight
        /\ \A j \in 1..Len(waypoints) : \A k \in {1, 3} :
              BetweenQ(InsetLo(k), waypoints[j][k], InsetHi(k))

C8_Witness ==
    /\ pc = "returned"
    /\ nx = 3 /\ nz = 2
    /\ size[1] = 6 /\ size[3] = 3
    /\ Len(waypoints) = 6
    /\ waypoints[3][1] = <<0, 4>>

\* C9: the orbit generator raises when the scene has no extent along X and Z,
\* and whenever it raises (empty scene, zero extent, no frames to make) no
\* frame has been built and save_path has not been called.
C9_OrbitFailsFast ==
    /\ (Len(points) = 0 /\ pc # "entry") => pc = "raised"
    /\ (Len(points) > 0 /\ ~NonZeroExtent /\ pc \notin {"entry", "bounds"}) => pc = "raised"
    /\ pc = "raised" => frames = <<>> /\ ~saved

C9_Witness ==
    /\ pc = "raised"
    /\ Len(points) = 2
    /\ ~NonZeroExtent
    /\ frames = <<>>
    /\ ~saved

\* q is p moved by +1 or -1 along exactly one axis.
UnitStep(p, q) == Sub3(q, p) \in moves

PathValid ==
    /\ vox_path # None
    /\ vox_path[1] = start_vox
    /\ vox_path[Len(vox_path)] = end_vox
    /\ \A i \in 1..(Len(vox_path) - 1) : UnitStep(vox_path[i], vox_path[i + 1])
    /\ \A i \in 2..Len(vox_path) : vox_path[i] \notin occupied

\* C11: a path returned by astar begins with start, ends with goal, moves by
\* +1 or -1 along exactly one axis between consecutive elements, and holds no
\* occupied cell except possibly its first element; no step of the search
\* changes the occupancy set.
C11_ReturnedPathValid ==
    /\ [](Returned => PathValid)
    /\ [][occupied' = occupied]_vars

\* A returned path of several steps whose first element is an occupied cell.
C11_Witness ==
    /\ pc = "found"
    /\ start_vox \in occupied
    /\ Len(vox_path) >= 3
    /\ PathValid

\* The node reached from n by following k back-pointers (None once the chain has ended).
RECURSIVE Back(_, _)
Back(n, k) == IF k = 0 \/ n = None THEN n ELSE Back(came[n], k - 1)

\* The back-pointers of n lead to start in at most g[n] links, through distinct nodes.
ChainReachesStart(n) ==
    \E k \in 0..g[n] :
        /\ Back(n, k) = start_vox
        /\ Cardinality({Back(n, j) : j \in 0..k}) = k + 1

LinksAdjacent ==
    \A n \in DOMAIN came :
        IF n = start_vox THEN came[n] = None
        ELSE came[n] \in DOMAIN came /\ UnitStep(came[n], n)

\* C12: at every step of astar every recorded node's back-pointers lead to
\* start, whose back-pointer is None, without repeating a node and in at most
\* g[n] links, each link joining 6-adjacent cells; a returned path is the whole
\* chain of the goal, ends the reconstruction within g[goal] + 1 elements and
\* holds no voxel twice.
C12_BackPointersLeadToStart ==
    /\ DOMAIN came = DOMAIN g
    /\ LinksAdjacent
    /\ \A n \in DOMAIN g : ChainReachesStart(n)
    /\ Returned =>
          /\ Len(vox_path) <= g[end_vox] + 1
          /\ vox_path[1] = start_vox
          /\ Cardinality({vox_path[i] : i \in 1..Len(vox_path)}) = Len(vox_path)

\* The search has recorded some node a second time, at a lower cost and with a
\* new back-pointer, while its first heap entry is still waiting.
C12_Witness ==
    /\ pc = "search"
    /\ \E e1 \in open_set : \E e2 \in open_set :
          /\ e1[2] = e2[2]
          /\ e1[1] > e2[1]
          /\ g[e1[2]] >= 2
          /\ ChainReachesStart(e1[2])

====
